---- MODULE Spec2Model ----
(***************************************************************************)
(* Model of the crawl orchestration of smart-url-crawler (src/crawler.py,  *)
(* src/db_manager.py): the URL frontier kept in the shared store, the      *)
(* claim protocol (SELECT ... FOR UPDATE SKIP LOCKED), the per-URL fetch   *)
(* pipeline of each worker task, link discovery, and the run lifecycle.    *)
(*                                                                         *)
(* The store is modelled by its committed tables (urls, snapshots, links,  *)
(* runs), the row locks held between a locking read and its commit, and    *)
(* per worker the rows its open transaction has flushed but not committed. *)
(* One action is one await-delimited step of a task.                       *)
(***************************************************************************)
EXTENDS Integers, Sequences, FiniteSets, Bags, TLC

\* ---------------------------------------------------------------- bounds
NumWorkers == 2

Workers == 1..NumWorkers

\* ------------------------------------------------------- nullable columns
None == <<>>
Some(v) == <<v>>

\* ------------------------------------------------------------ the web
\* URL strings, kept as the components urlparse() splits them into.
MkUrl(s, n, p) == [scheme |-> s, netloc |-> n, path |-> p]
UrlSeed == MkUrl("http", "a.test", "/")
UrlB == MkUrl("http", "a.test", "/b")
UrlOther == MkUrl("https", "other.test", "/")
UrlMail == MkUrl("mailto", "", "x@a.test")

\* What page.eval_on_selector_all('a[href]', ...) yields for each page: the
\* list of href values in document order, repeated anchors included.
PageHrefs(u) ==
  IF u = UrlSeed THEN <<UrlSeed, UrlB, UrlOther, UrlMail, UrlB>>
  ELSE IF u = UrlB THEN <<UrlSeed, UrlOther, UrlOther>>
  ELSE <<>>

\* page.content() and its sha256 hex digest.
PageContent(u) == <<"html", u.path>>
Sha256(c) == <<"sha256", c>>

StatusCodes == {200}

\* ------------------------------------------------------------ classifier
\* Mutant: every URL is taken to belong to the crawled site.
ClassifyAllInternal(u, base_host) == "internal"

\* 'internal' if parsed.netloc==base_host else 'external'
Classify(u, base_host) == IF u.netloc = base_host THEN "internal" ELSE "external"

\* ------------------------------------------------------------ state
VARIABLES
  now,        \* the next reading of datetime.now(timezone.utc)
  mainpc,     \* position of crawl()
  run_id,     \* id of the CrawlRun row of this invocation (0 before it exists)
  runs,       \* crawl_runs table: sequence of [start_time, end_time]
  urls,       \* urls table: sequence of rows, id = index
  snapshots,  \* snapshots table: set of committed rows
  links,      \* links table: bag of committed [source_id, target_id, snapshot_id]
  nextSnapId, \* next autoincrement id of the snapshots table
  wk,         \* per worker task: its locals, its session's open transaction
  claimCount, \* history: per urls row, how many times a worker claimed it in this run
  opened      \* history: urls rows for which a page was opened in this run

vars == <<now, mainpc, run_id, runs, urls, snapshots, links, nextSnapId, wk,
          claimCount, opened>>

\* ------------------------------------------------------------ rows
UrlRow(u, cat, st, la) == [url |-> u, category |-> cat, status |-> st, last_attempt |-> la]

\* A Snapshot row; the three timing columns are kept as one field.
SnapRow(id, uid, rid, sc, hash, content, err, metrics) ==
  [id |-> id, url_id |-> uid, run_id |-> rid, status_code |-> sc,
   content_hash |-> hash, content |-> content, error_message |-> err,
   metrics |-> metrics]

LinkRow(src, tgt, sid) == [source_id |-> src, target_id |-> tgt, snapshot_id |-> sid]

\* session.scalar(sa.select(URL).filter_by(url=u)): ids of the rows holding u.
RowsOf(u) == {i \in DOMAIN urls : urls[i].url = u}

\* ------------------------------------------------------------ worker locals
IdleWorker ==
  [pc |-> "idle", cur |-> 0, status |-> None, err |-> None, todo |-> {},
   href |-> None, new_links |-> EmptyBag, snap |-> None, page |-> FALSE,
   inserted |-> {}]

\* ------------------------------------------------------------ initial store
\* The store before crawl() is called: empty, or left by an earlier, finished
\* run: one started from another site that checked the seed URL as an external
\* one, or one from the same seed whose fetch failed.
PriorStores ==
  { [runs |-> <<>>, urls |-> <<>>, snapshots |-> {}, nextSnapId |-> 1],
    [runs |-> <<[start_time |-> 0, end_time |-> Some(0)]>>,
     urls |-> <<UrlRow(UrlSeed, "external", "done", Some(0))>>,
     snapshots |-> {SnapRow(1, 1, 1, Some(200), None, None, None, None)},
     nextSnapId |-> 2],
    [runs |-> <<[start_time |-> 0, end_time |-> Some(0)]>>,
     urls |-> <<UrlRow(UrlSeed, "internal", "error", Some(0))>>,
     snapshots |-> {SnapRow(1, 1, 1, None, None, None, Some("PageError"), None)},
     nextSnapId |-> 2] }

Init ==
  /\ now = 1
  /\ mainpc = "start"
  /\ run_id = 0
  /\ \E st \in PriorStores :
       /\ runs = st.runs
       /\ urls = st.urls
       /\ snapshots = st.snapshots
       /\ nextSnapId = st.nextSnapId
       /\ claimCount = [i \in DOMAIN st.urls |-> 0]
  /\ links = EmptyBag
  /\ wk = [w \in Workers |-> IdleWorker]
  /\ opened = {}

\* ------------------------------------------------------------ clock
\* datetime.now(timezone.utc) yields now; the next reading is later.
ClockRead == now' = now + 1

\* ------------------------------------------------------------ crawl()
start_url == UrlSeed
base_host == start_url.netloc

\* Create a crawl run record.
StartRun ==
  /\ mainpc = "start"
  /\ ClockRead
  /\ runs' = Append(runs, [start_time |-> now, end_time |-> None])
  /\ run_id' = Len(runs) + 1
  /\ mainpc' = "seed"
  /\ UNCHANGED <<urls, snapshots, links, nextSnapId, wk, claimCount, opened>>

\* Mutant: the seed row is added without looking for an existing one.
ReseededAlwaysInserts(u) ==
  Append(urls, UrlRow(u, "internal", "pending", None))

\* Seed/reset start URL.
Reseeded(u) ==
  IF RowsOf(u) # {}
  THEN [i \in DOMAIN urls |->
          IF urls[i].url = u
          THEN [urls[i] EXCEPT !.status = "pending", !.last_attempt = None]
          ELSE urls[i]]
  ELSE Append(urls, UrlRow(u, "internal", "pending", None))

Reseed ==
  /\ mainpc = "seed"
  /\ urls' = Reseeded(start_url)
  /\ claimCount' = [i \in DOMAIN urls' |-> 0]
  /\ mainpc' = "launch"
  /\ UNCHANGED <<now, run_id, runs, snapshots, links, nextSnapId, wk, opened>>

\* Browser launch and creation of the worker tasks.
Launch ==
  /\ mainpc = "launch"
  /\ wk' = [w \in Workers |-> [IdleWorker EXCEPT !.pc = "claim"]]
  /\ mainpc' = "gather"
  /\ UNCHANGED <<now, run_id, runs, urls, snapshots, links, nextSnapId,
                 claimCount, opened>>

AllStopped == \A w \in Workers : wk[w].pc = "stopped"

\* Mutant: crawl() goes on to close the run without awaiting the worker tasks.
GatherNoJoin ==
  /\ mainpc = "gather"
  /\ mainpc' = "end"
  /\ UNCHANGED <<now, run_id, runs, urls, snapshots, links, nextSnapId, wk,
                 claimCount, opened>>

\* asyncio.gather returns once every worker task has returned.
Gather ==
  /\ mainpc = "gather"
  /\ AllStopped
  /\ mainpc' = "end"
  /\ UNCHANGED <<now, run_id, runs, urls, snapshots, links, nextSnapId, wk,
                 claimCount, opened>>

\* Finish run.
EndRun ==
  /\ mainpc = "end"
  /\ ClockRead
  /\ runs' = [runs EXCEPT ![run_id].end_time = Some(now)]
  /\ mainpc' = "finished"
  /\ UNCHANGED <<run_id, urls, snapshots, links, nextSnapId, wk,
                 claimCount, opened>>

\* ------------------------------------------------------------ claim
\* Mutant: a plain SELECT, without FOR UPDATE: no row is ever seen as locked.
NoRowLocks(w) == {}

\* Rows locked by the locking read of another session that has not committed.
LockedByOthers(w) == {wk[v].cur : v \in {x \in Workers \ {w} : wk[x].pc = "claim_commit"}}

\* Mutant: the claim also takes rows whose fetch failed.
ClaimableAlsoError(w) ==
  {i \in DOMAIN urls : urls[i].status \in {"pending", "error"} /\ i \notin LockedByOthers(w)}

\* where status == 'pending', order by id, for update skip locked, limit 1
Claimable(w) ==
  {i \in DOMAIN urls : urls[i].status = "pending" /\ i \notin LockedByOthers(w)}

\* Mutant: the claim takes the newest row instead of the oldest.
MaxOf(S) == CHOOSE i \in S : \A j \in S : i >= j

MinOf(S) == CHOOSE i \in S : \A j \in S : i <= j

\* Mutant: a worker that found nothing looks again later instead of returning.
ClaimSelectPolls(w) ==
  /\ wk[w].pc \in {"claim", "stopped"}
  /\ IF Claimable(w) = {}
     THEN wk' = [wk EXCEPT ![w].pc = "stopped"]
     ELSE wk' = [wk EXCEPT ![w].pc = "claim_commit", ![w].cur = MinOf(Claimable(w))]
  /\ UNCHANGED <<now, mainpc, run_id, runs, urls, snapshots, links, nextSnapId,
                 claimCount, opened>>

ClaimSelect(w) ==
  /\ wk[w].pc = "claim"
  /\ IF Claimable(w) = {}
     THEN wk' = [wk EXCEPT ![w].pc = "stopped"]
     ELSE wk' = [wk EXCEPT ![w].pc = "claim_commit", ![w].cur = MinOf(Claimable(w))]
  /\ UNCHANGED <<now, mainpc, run_id, runs, urls, snapshots, links, nextSnapId,
                 claimCount, opened>>

\* Mutant: the external branch is missing; every claimed URL is rendered.
BranchAlwaysRender(cat) == "new_page"

\* The branch taken after the claim commit.
BranchOf(cat) == IF cat = "external" THEN "external" ELSE "new_page"

\* Classify, mark in_progress, stamp last_attempt, commit.
ClaimCommit(w) ==
  /\ wk[w].pc = "claim_commit"
  /\ LET i == wk[w].cur
         cat == Classify(urls[i].url, base_host)
     IN /\ ClockRead
        /\ urls' = [urls EXCEPT ![i].category = cat,
                                ![i].status = "in_progress",
                                ![i].last_attempt = Some(now)]
        /\ claimCount' = [claimCount EXCEPT ![i] = @ + 1]
        /\ wk' = [wk EXCEPT ![w] = [IdleWorker EXCEPT !.pc = BranchOf(cat), !.cur = i]]
  /\ UNCHANGED <<mainpc, run_id, runs, snapshots, links, nextSnapId, opened>>

\* ------------------------------------------------------------ external branch
\* Mutant: the external branch forgets to mark the row done.
ExtStatusLeftInProgress(err) == "in_progress"

\* Mutant: a failed external request marks the row error.
ExtStatusErrorOnFailure(err) == IF err # None THEN "error" ELSE "done"

\* The status the external branch leaves on the row.
ExtTerminalStatus(err) == "done"

ExternalSnapshot(w, status, err) ==
  SnapRow(nextSnapId, wk[w].cur, run_id, status, None, None, err, None)

\* HTTP status-only: context.request.get answers or raises; either way one
\* Snapshot is added, the row is marked done, and both are committed.
ExternalRecord(w, status, err) ==
  /\ snapshots' = snapshots \cup {ExternalSnapshot(w, status, err)}
  /\ nextSnapId' = nextSnapId + 1
  /\ urls' = [urls EXCEPT ![wk[w].cur].status = ExtTerminalStatus(err)]
  /\ wk' = [wk EXCEPT ![w] = [IdleWorker EXCEPT !.pc = "claim"]]

ExternalFetch(w) ==
  /\ wk[w].pc = "external"
  /\ \/ \E s \in StatusCodes : ExternalRecord(w, Some(s), None)
     \/ ExternalRecord(w, None, Some("RequestError"))
  /\ UNCHANGED <<now, mainpc, run_id, runs, links, claimCount, opened>>

\* ------------------------------------------------------------ internal branch
CurUrl(w) == urls[wk[w].cur].url

\* What page.goto returns: a response object, or no response object.
Responses == {Some([status |-> s]) : s \in StatusCodes} \cup {None}

\* status_code = resp.status if resp else None
StatusOf(resp) == IF resp # None THEN Some(resp[1].status) ELSE None

\* Mutant: the page's own URL is not skipped.
EligibleWithSelf(hrefs, u) ==
  {h \in {hrefs[k] : k \in DOMAIN hrefs} : h.scheme \in {"http", "https"}}

\* The hrefs the loop registers, each once (set(hrefs)): not the page's own
\* URL, scheme http or https.
Eligible(hrefs, u) ==
  {h \in {hrefs[k] : k \in DOMAIN hrefs} : h # u /\ h.scheme \in {"http", "https"}}

\* An exception inside the try block: control moves to the except handler.
Raise(w, kind) == wk' = [wk EXCEPT ![w].pc = "except", ![w].err = Some(kind)]

\* page = await context.new_page()
NewPage(w) ==
  /\ wk[w].pc = "new_page"
  /\ wk' = [wk EXCEPT ![w].pc = "render", ![w].page = TRUE]
  /\ opened' = opened \cup {wk[w].cur}
  /\ UNCHANGED <<now, mainpc, run_id, runs, urls, snapshots, links, nextSnapId,
                 claimCount>>

\* page.goto, wait_for_full_load (its timeouts are swallowed), the timing
\* metrics and the href list: no access to the store; any of them may raise.
Render(w) ==
  /\ wk[w].pc = "render"
  /\ \/ \E resp \in Responses :
          wk' = [wk EXCEPT ![w].pc = "links", ![w].status = StatusOf(resp),
                           ![w].todo = Eligible(PageHrefs(CurUrl(w)), CurUrl(w)),
                           ![w].new_links = EmptyBag]
     \/ Raise(w, "PageError")
  /\ UNCHANGED <<now, mainpc, run_id, runs, urls, snapshots, links, nextSnapId,
                 claimCount, opened>>

\* new_links.append((url_obj.id, tgt_id))
Staged(w, tgt) == wk[w].new_links (+) SetToBag({<<wk[w].cur, tgt>>})

\* Mutant: a target that is found is made pending again (an upsert).
LookupResetsFound(w) ==
  /\ wk[w].pc = "links"
  /\ \E h \in wk[w].todo :
       IF RowsOf(h) # {}
       THEN /\ wk' = [wk EXCEPT ![w].todo = @ \ {h},
                                ![w].new_links = Staged(w, MinOf(RowsOf(h)))]
            /\ urls' = [urls EXCEPT ![MinOf(RowsOf(h))].status = "pending",
                                    ![MinOf(RowsOf(h))].last_attempt = None]
       ELSE /\ wk' = [wk EXCEPT ![w].pc = "insert", ![w].href = Some(h)]
            /\ UNCHANGED urls
  /\ UNCHANGED <<now, mainpc, run_id, runs, snapshots, links, nextSnapId,
                 claimCount, opened>>

\* One iteration of `for href in set(hrefs)`: the lookup of the target row.
Lookup(w) ==
  /\ wk[w].pc = "links"
  /\ \E h \in wk[w].todo :
       IF RowsOf(h) # {}
       THEN wk' = [wk EXCEPT ![w].todo = @ \ {h},
                             ![w].new_links = Staged(w, MinOf(RowsOf(h)))]
       ELSE wk' = [wk EXCEPT ![w].pc = "insert", ![w].href = Some(h)]
  /\ UNCHANGED <<now, mainpc, run_id, runs, urls, snapshots, links, nextSnapId,
                 claimCount, opened>>

\* Mutant: the urls table has no unique index on url.
UniqueIndexMissing(u) == FALSE

\* The unique index uq_urls_url rejects a second row with the same url.
UniqueViolation(u) == RowsOf(u) # {}

\* session.add(new_url); await session.commit()
Insert(w) ==
  /\ wk[w].pc = "insert"
  /\ LET h == wk[w].href[1]
         id == Len(urls) + 1
     IN IF UniqueViolation(h)
        THEN /\ Raise(w, "IntegrityError")
             /\ UNCHANGED <<urls, claimCount>>
        ELSE /\ urls' = Append(urls, UrlRow(h, Classify(h, base_host), "pending", None))
             /\ claimCount' = Append(claimCount, 0)
             /\ wk' = [wk EXCEPT ![w].pc = "links", ![w].href = None,
                                 ![w].todo = @ \ {h},
                                 ![w].inserted = @ \cup {id},
                                 ![w].new_links = Staged(w, id)]
  /\ UNCHANGED <<now, mainpc, run_id, runs, snapshots, links, nextSnapId, opened>>

SuccessSnapshot(w) ==
  SnapRow(nextSnapId, wk[w].cur, run_id, wk[w].status,
          Some(Sha256(PageContent(CurUrl(w)))), Some(PageContent(CurUrl(w))),
          None, Some("timing"))

\* Mutant: the Snapshot is committed on its own where the code only flushes it.
FlushCommitting(w) ==
  /\ wk[w].pc = "links"
  /\ wk[w].todo = {}
  /\ \/ /\ wk' = [wk EXCEPT ![w].pc = "commit", ![w].snap = Some(SuccessSnapshot(w))]
        /\ snapshots' = snapshots \cup {SuccessSnapshot(w)}
        /\ nextSnapId' = nextSnapId + 1
     \/ /\ Raise(w, "PageError")
        /\ UNCHANGED <<nextSnapId, snapshots>>
  /\ UNCHANGED <<now, mainpc, run_id, runs, urls, links, claimCount, opened>>

\* After the loop: page.content(), its digest, then session.add(snap) and
\* session.flush(): the row gets its id inside the session's transaction and
\* is not visible to other sessions.
Flush(w) ==
  /\ wk[w].pc = "links"
  /\ wk[w].todo = {}
  /\ \/ /\ wk' = [wk EXCEPT ![w].pc = "commit", ![w].snap = Some(SuccessSnapshot(w))]
        /\ nextSnapId' = nextSnapId + 1
     \/ /\ Raise(w, "PageError")
        /\ UNCHANGED nextSnapId
  /\ UNCHANGED <<now, mainpc, run_id, runs, urls, snapshots, links, claimCount, opened>>

\* for src, tgt in new_links: session.add(Link(...))
LinkRows(w) ==
  LET nl == wk[w].new_links
      sid == wk[w].snap[1].id
  IN [r \in {LinkRow(e[1], e[2], sid) : e \in BagToSet(nl)} |->
        nl[<<r.source_id, r.target_id>>]]

\* The rows a commit makes visible: those the transaction holds, and the new ones.
Committing(held, new) == (IF held = None THEN {} ELSE {held[1]}) \cup new

\* Persist link edges, url_obj.status = 'done', commit: one transaction.
Commit(w) ==
  /\ wk[w].pc = "commit"
  /\ \/ /\ snapshots' = snapshots \cup Committing(wk[w].snap, {})
        /\ links' = links (+) LinkRows(w)
        /\ urls' = [urls EXCEPT ![wk[w].cur].status = "done"]
        /\ wk' = [wk EXCEPT ![w].pc = "close_page", ![w].snap = None]
     \/ /\ Raise(w, "CommitError")
        /\ UNCHANGED <<snapshots, links, urls>>
  /\ UNCHANGED <<now, mainpc, run_id, runs, nextSnapId, claimCount, opened>>

\* Mutant: the rollback keeps what the session had flushed.
RollbackKeepsFlushed(snap) == snap

\* await session.rollback(): what the session's open transaction holds after it.
RolledBack(snap) == None

ErrorSnapshot(w) ==
  SnapRow(nextSnapId, wk[w].cur, run_id, None, None, None, wk[w].err, None)

\* except Exception: rollback, then the error Snapshot and status 'error',
\* committed together.
HandleError(w) ==
  /\ wk[w].pc = "except"
  /\ snapshots' = snapshots \cup Committing(RolledBack(wk[w].snap), {ErrorSnapshot(w)})
  /\ nextSnapId' = nextSnapId + 1
  /\ urls' = [urls EXCEPT ![wk[w].cur].status = "error"]
  /\ wk' = [wk EXCEPT ![w].pc = "close_page", ![w].snap = None]
  /\ UNCHANGED <<now, mainpc, run_id, runs, links, claimCount, opened>>

\* Mutant: after a handled failure the worker returns instead of looping.
ClosePageStopsOnError(w) ==
  /\ wk[w].pc = "close_page"
  /\ wk' = [wk EXCEPT ![w] = [IdleWorker EXCEPT
                               !.pc = IF wk[w].err # None THEN "stopped" ELSE "claim"]]
  /\ UNCHANGED <<now, mainpc, run_id, runs, urls, snapshots, links, nextSnapId,
                 claimCount, opened>>

\* Mutant: the finally clause does not close the page.
ClosePageLeaks(w) ==
  /\ wk[w].pc = "close_page"
  /\ wk' = [wk EXCEPT ![w] = [IdleWorker EXCEPT !.pc = "claim", !.page = TRUE]]
  /\ UNCHANGED <<now, mainpc, run_id, runs, urls, snapshots, links, nextSnapId,
                 claimCount, opened>>

\* finally: await page.close(); the loop goes back to the claim.
ClosePage(w) ==
  /\ wk[w].pc = "close_page"
  /\ wk' = [wk EXCEPT ![w] = [IdleWorker EXCEPT !.pc = "claim"]]
  /\ UNCHANGED <<now, mainpc, run_id, runs, urls, snapshots, links, nextSnapId,
                 claimCount, opened>>

\* ------------------------------------------------------------ next-state
Main == StartRun \/ Reseed \/ Launch \/ Gather \/ EndRun

WorkerStep(w) ==
  \/ ClaimSelect(w)
  \/ ClaimCommit(w)
  \/ ExternalFetch(w)
  \/ NewPage(w)
  \/ Render(w)
  \/ Lookup(w)
  \/ Insert(w)
  \/ Flush(w)
  \/ Commit(w)
  \/ HandleError(w)
  \/ ClosePage(w)

Next == Main \/ \E w \in Workers : WorkerStep(w)

Spec == Init /\ [][Next]_vars

\* The event loop runs every task that can run; crawl() itself is one of them.
FairSpec ==
  /\ Spec
  /\ WF_vars(Main)
  /\ \A w \in Workers : WF_vars(WorkerStep(w))

\* ------------------------------------------------- raising error handler
\* A statement of the except block (rollback 167, Snapshot 168-176, commit
\* 178) raises: what the session held is discarded, the row stays as claimed,
\* and the exception leaves the try statement through its finally clause.
HandlerRaises(w) ==
  /\ wk[w].pc = "except"
  /\ wk' = [wk EXCEPT ![w].pc = "close_page_raising", ![w].snap = RolledBack(wk[w].snap)]
  /\ UNCHANGED <<now, mainpc, run_id, runs, urls, snapshots, links, nextSnapId,
                 claimCount, opened>>

\* finally: await page.close() with the handler's exception pending; the
\* exception then ends the worker task.
ClosePageRaising(w) ==
  /\ wk[w].pc = "close_page_raising"
  /\ wk' = [wk EXCEPT ![w].pc = "crashed", ![w].page = FALSE]
  /\ UNCHANGED <<now, mainpc, run_id, runs, urls, snapshots, links, nextSnapId,
                 claimCount, opened>>

\* gather() without return_exceptions re-raises the first task exception in
\* crawl(), which is left without the end_time update.
GatherRaises ==
  /\ mainpc = "gather"
  /\ \E w \in Workers : wk[w].pc = "crashed"
  /\ mainpc' = "aborted"
  /\ UNCHANGED <<now, run_id, runs, urls, snapshots, links, nextSnapId, wk,
                 claimCount, opened>>

\* asyncio.run cancels the tasks still running: CancelledError is raised at
\* the await the worker is suspended in; it is not an Exception, so only the
\* finally clause runs where the worker is inside the try statement.
Cancel(w) ==
  /\ mainpc = "aborted"
  /\ wk[w].pc \notin {"idle", "stopped", "crashed", "cancelled"}
  /\ wk' = [wk EXCEPT ![w].pc = "cancelled", ![w].page = FALSE,
                      ![w].snap = RolledBack(wk[w].snap)]
  /\ UNCHANGED <<now, mainpc, run_id, runs, urls, snapshots, links, nextSnapId,
                 claimCount, opened>>

FaultStep(w) == HandlerRaises(w) \/ ClosePageRaising(w) \/ Cancel(w)

NextFault == Next \/ GatherRaises \/ \E w \in Workers : FaultStep(w)

SpecHandlerFault == Init /\ [][NextFault]_vars

\* ------------------------------------------------- reseed on any store
\* Stores crawl() may find when it reaches the seed step: the seed URL absent
\* or present in any status, with or without another row before or after it.
Statuses == {"pending", "in_progress", "done", "error"}

AnyRows(u) ==
  {UrlRow(u, cat, st, la) : cat \in {"internal", "external"}, st \in Statuses,
                            la \in {None, Some(0)}}

AnyStores ==
  {<<>>} \cup {<<s>> : s \in AnyRows(UrlSeed)} \cup {<<b>> : b \in AnyRows(UrlB)}
    \cup {<<s, b>> : s \in AnyRows(UrlSeed), b \in AnyRows(UrlB)}
    \cup {<<b, s>> : s \in AnyRows(UrlSeed), b \in AnyRows(UrlB)}

InitReseed ==
  /\ now = 1
  /\ mainpc = "seed"
  /\ run_id = 1
  /\ runs = <<[start_time |-> 0, end_time |-> None]>>
  /\ urls \in AnyStores
  /\ snapshots = {}
  /\ nextSnapId = 1
  /\ claimCount = [i \in DOMAIN urls |-> 0]
  /\ links = EmptyBag
  /\ wk = [w \in Workers |-> IdleWorker]
  /\ opened = {}

\* The seed step of lines 51-58 applied once more to the store it produced.
ReseedAgain ==
  /\ mainpc = "launch"
  /\ urls' = Reseeded(start_url)
  /\ claimCount' = [i \in DOMAIN urls' |-> 0]
  /\ mainpc' = "seeded_twice"
  /\ UNCHANGED <<now, run_id, runs, snapshots, links, nextSnapId, wk, opened>>

NextReseed == Reseed \/ ReseedAgain

SpecReseed == InitReseed /\ [][NextReseed]_vars

\* ============================================================ properties
\* Workers between the claim commit and the commit of a terminal status.
InFlight == {"external", "new_page", "render", "links", "insert", "commit", "except"}
Holders(i) == {w \in Workers : wk[w].cur = i /\ wk[w].pc \in InFlight}
Rows == DOMAIN urls
\* Snapshots of the current run for row i.
RunSnaps(i) == {s \in snapshots : s.run_id = run_id /\ s.url_id = i}
SuccessSnaps(i) == {s \in RunSnaps(i) : s.error_message = None}
LinksOf(sid) == {l \in BagToSet(links) : l.snapshot_id = sid}
ClaimedRows == {i \in Rows : claimCount[i] >= 1}
EndSet == run_id # 0 /\ runs[run_id].end_time # None
Terminal == {"done", "error"}

\* C1: the claim never hands a row to two workers: every in_progress row is
\* held by exactly one worker, two workers never hold (or have locked) the same
\* row, and no row is claimed more than once in the run.
C1_NoDoubleClaim ==
  /\ \A i \in Rows : urls[i].status = "in_progress" => Cardinality(Holders(i)) = 1
  /\ \A i \in Rows : claimCount[i] <= 1
  /\ \A v, w \in Workers :
       (v # w /\ wk[v].pc \in InFlight \cup {"claim_commit"}
              /\ wk[w].pc \in InFlight \cup {"claim_commit"})
       => wk[v].cur # wk[w].cur

\* Two workers hold two different rows at the same time.
C1_Witness ==
  \E v, w \in Workers :
    /\ v # w
    /\ wk[v].pc \in InFlight /\ wk[w].pc \in InFlight
    /\ urls[wk[v].cur].status = "in_progress" /\ urls[wk[w].cur].status = "in_progress"

C3_SnapshotXor ==
  \A s \in snapshots : (s.status_code # None) # (s.error_message # None)

\* C4: no two frontier rows carry the same URL string, whatever the
\* interleaving of the lookups and inserts of concurrent workers.
C4_OneRowPerUrl ==
  \A i, j \in Rows : urls[i].url = urls[j].url => i = j

\* Two workers looked the same URL up, both found it absent, both inserted:
\* one insert lost, and the frontier holds exactly one row for the URL.
C4_Witness ==
  \E w \in Workers :
    /\ wk[w].err = Some("IntegrityError")
    /\ Cardinality(RowsOf(wk[w].href[1])) = 1

\* C5: an identity conflict is never surfaced: no worker's fetch fails with it
\* and no error Snapshot records it.
C5_ConflictNeverSurfaced ==
  /\ \A w \in Workers : wk[w].err # Some("IntegrityError")
  /\ \A s \in snapshots : s.error_message # Some("IntegrityError")

\* The Link rows a worker's staged edges become under Snapshot sid.
EdgesOf(w, sid) == {LinkRow(e[1], e[2], sid) : e \in BagToSet(wk[w].new_links)}

\* C6: a Snapshot and its Link edges become visible together: a claimed
\* internal row is done exactly when its success Snapshot is committed (and
\* there is only one), a worker that has just committed finds all of its staged
\* edges, and only them, under that Snapshot, and every Link row references a
\* committed success Snapshot whose url_id is the Link's source_id.
C6_SnapshotAndEdgesAtomic ==
  /\ \A i \in ClaimedRows :
       urls[i].category = "internal" =>
         /\ (urls[i].status = "done") <=> (SuccessSnaps(i) # {})
         /\ Cardinality(SuccessSnaps(i)) <= 1
  /\ \A w \in Workers :
       (wk[w].pc = "close_page" /\ wk[w].err = None) =>
         \E s \in SuccessSnaps(wk[w].cur) :
           /\ LinksOf(s.id) = EdgesOf(w, s.id)
           /\ \A l \in LinksOf(s.id) : links[l] = 1
  /\ \A l \in BagToSet(links) :
       \E s \in snapshots :
         s.id = l.snapshot_id /\ s.url_id = l.source_id /\ s.error_message = None

\* A worker has committed a success Snapshot together with two edges.
C6_Witness ==
  \E w \in Workers :
    /\ wk[w].pc = "close_page" /\ wk[w].err = None
    /\ \E s \in SuccessSnaps(wk[w].cur) : Cardinality(LinksOf(s.id)) = 2

\* C7: after a failed internal attempt, nothing the attempt wrote before the
\* failure persists (frontier rows it registered, Link rows, a success
\* Snapshot); only one error Snapshot and the status error do.
C7_FailedAttemptLeavesOnlyError ==
  \A w \in Workers :
    (wk[w].pc = "close_page" /\ wk[w].err # None) =>
      LET i == wk[w].cur
      IN /\ urls[i].status = "error"
         /\ \E s \in RunSnaps(i) :
              /\ RunSnaps(i) = {s}
              /\ s = SnapRow(s.id, i, run_id, None, None, None, wk[w].err, None)
              /\ LinksOf(s.id) = {}
         /\ \A j \in wk[w].inserted : j \notin Rows

\* C8: a claimed external URL is in progress with no Snapshot yet, or done
\* with exactly one Snapshot, whether the request was answered or raised; it is
\* never error, so every row with status error is internal.
C8_ExternalAlwaysDone ==
  /\ \A i \in Rows : urls[i].status = "error" => urls[i].category = "internal"
  /\ \A i \in ClaimedRows :
       urls[i].category = "external" =>
         \/ urls[i].status = "in_progress" /\ RunSnaps(i) = {}
         \/ urls[i].status = "done" /\ Cardinality(RunSnaps(i)) = 1

\* An external URL whose request raised is done, with its one error Snapshot.
C8_Witness ==
  \E i \in ClaimedRows :
    /\ urls[i].category = "external"
    /\ urls[i].status = "done"
    /\ \E s \in RunSnaps(i) : s.error_message = Some("RequestError")

\* C9: processing an external URL never opens a page, and every Snapshot of an
\* external URL has no content_hash, no content, no timing metrics and no Link
\* rows.
C9_ExternalNeverRenders ==
  /\ \A i \in ClaimedRows : urls[i].category = "external" => i \notin opened
  /\ \A w \in Workers : wk[w].pc = "external" => ~wk[w].page
  /\ \A i \in ClaimedRows :
       urls[i].category = "external" =>
         \A s \in RunSnaps(i) :
           /\ s.content_hash = None /\ s.content = None /\ s.metrics = None
           /\ LinksOf(s.id) = {}

\* An external URL has been fetched and its Snapshot answered with a status,
\* while an internal URL has had a page opened.
C9_Witness ==
  /\ \E i \in ClaimedRows :
       /\ urls[i].category = "external"
       /\ \E s \in RunSnaps(i) : s.status_code = Some(200)
  /\ opened # {}

\* C10: the run is closed once, after the join: end_time is set only when
\* every worker has terminated, it is not before start_time, and once it is
\* set neither the run row nor the Snapshot table changes any more.
C10_RunClosedOnceAfterJoin ==
  /\ [](EndSet => /\ AllStopped
                  /\ runs[run_id].end_time[1] >= runs[run_id].start_time)
  /\ [][EndSet => (runs' = runs /\ snapshots' = snapshots)]_vars

\* The run has been closed after its workers wrote Snapshots.
C10_Witness ==
  /\ EndSet
  /\ \E s \in snapshots : s.run_id = run_id

\* A step of worker w leaves worker v, the row v holds and that row's
\* Snapshots as they were.
Untouched(v) ==
  /\ wk'[v] = wk[v]
  /\ wk[v].pc \in InFlight =>
       /\ urls'[wk[v].cur] = urls[wk[v].cur]
       /\ {s \in snapshots' : s.url_id = wk[v].cur} = {s \in snapshots : s.url_id = wk[v].cur}

C12_PagesReleased ==
  /\ [](\A w \in Workers :
          /\ wk[w].pc \in {"idle", "claim", "claim_commit", "external", "new_page",
                           "stopped", "crashed", "cancelled"} => ~wk[w].page
          /\ wk[w].pc \in {"render", "links"} => wk[w].page /\ wk[w].cur \in opened)
  /\ [][\A w \in Workers : (~wk[w].page /\ wk'[w].page) <=>
                             (wk[w].pc = "new_page" /\ wk'[w].pc = "render")]_vars
  /\ [][\A w \in Workers : (wk[w].pc = "new_page" /\ wk'[w].pc = "render") => ~wk[w].page]_vars

\* A worker whose error handler raised has terminated with its page closed and
\* its row still in_progress.
C12_Witness ==
  \E w \in Workers :
    /\ wk[w].pc = "crashed"
    /\ wk[w].cur \in opened
    /\ ~wk[w].page
    /\ urls[wk[w].cur].status = "in_progress"

\* C13: whatever the store holds, the seed step leaves exactly one row for the
\* seed URL, pending and with no last_attempt: an existing row keeps its place
\* and category and no row is added, an absent URL gets one new internal row at
\* the end; every other row is left as it was; and the seed step applied to its
\* own result changes nothing.
C13_ReseedIdempotent ==
  /\ [][mainpc = "seed" =>
          /\ Cardinality({i \in DOMAIN urls' : urls'[i].url = start_url}) = 1
          /\ \A i \in DOMAIN urls' :
               urls'[i].url = start_url =>
                 urls'[i].status = "pending" /\ urls'[i].last_attempt = None
          /\ Len(urls') = Len(urls) + (IF RowsOf(start_url) = {} THEN 1 ELSE 0)
          /\ \A i \in DOMAIN urls :
               /\ urls'[i].url = urls[i].url
               /\ urls'[i].category = urls[i].category
               /\ urls[i].url # start_url => urls'[i] = urls[i]
          /\ RowsOf(start_url) = {} =>
               urls'[Len(urls')] = UrlRow(start_url, "internal", "pending", None)]_vars
  /\ [][mainpc = "launch" => urls' = urls]_vars

\* The seed step ran twice on a store whose seed row predates it (only an
\* older row can be external) and that holds a second row not pending.
C13_Witness ==
  /\ mainpc = "seeded_twice"
  /\ Len(urls) = 2
  /\ \E i \in RowsOf(start_url) :
       urls[i].category = "external" /\ urls[i].status = "pending"
  /\ \E i \in DOMAIN urls : urls[i].url = UrlB /\ urls[i].status = "in_progress"

\* C14: after the seed step a row's status changes only from pending to
\* in_progress and from in_progress to done or error; a done or error row is
\* not changed at all; a row added during the run starts pending; and no row
\* is claimed twice in the run.
C14_StatusOnlyForward ==
  /\ [][mainpc # "seed" =>
          /\ \A i \in DOMAIN urls :
               /\ \/ urls'[i].status = urls[i].status
                  \/ urls[i].status = "pending" /\ urls'[i].status = "in_progress"
                  \/ urls[i].status = "in_progress" /\ urls'[i].status \in {"done", "error"}
               /\ urls[i].status \in {"done", "error"} => urls'[i] = urls[i]
          /\ \A i \in DOMAIN urls' \ DOMAIN urls : urls'[i].status = "pending"]_vars
  /\ [](\A i \in DOMAIN urls : claimCount[i] <= 1)

\* The run ended with a row that went through to done and one that went
\* through to error, each claimed once.
C14_Witness ==
  /\ mainpc = "finished"
  /\ \E i \in DOMAIN urls : urls[i].status = "done" /\ claimCount[i] = 1
  /\ \E i \in DOMAIN urls : urls[i].status = "error" /\ claimCount[i] = 1

\* Pending rows that no other worker has selected for update and not yet
\* committed.
FreePending(w) ==
  {i \in DOMAIN urls :
     /\ urls[i].status = "pending"
     /\ \A v \in Workers \ {w} : ~(wk[v].pc = "claim_commit" /\ wk[v].cur = i)}

\* C15: a worker at the claim is never blocked; its select returns nothing
\* (the worker stops) exactly when no pending row is free of other workers'
\* locks, and otherwise returns the free pending row with the lowest id
\* without writing; the row then stays pending and locked until one commit
\* sets status in_progress and last_attempt to the current time together, so
\* no in_progress row is without last_attempt.
C15_ClaimNext ==
  /\ [](\A w \in Workers : wk[w].pc = "claim" => ENABLED ClaimSelect(w))
  /\ [][\A w \in Workers :
          (wk[w].pc = "claim" /\ wk'[w].pc # "claim") =>
            /\ (wk'[w].pc = "stopped") <=> (FreePending(w) = {})
            /\ FreePending(w) # {} =>
                 /\ wk'[w].pc = "claim_commit"
                 /\ wk'[w].cur \in FreePending(w)
                 /\ \A j \in FreePending(w) : wk'[w].cur <= j
            /\ urls' = urls]_vars
  /\ [](\A w \in Workers :
          wk[w].pc = "claim_commit" =>
            /\ urls[wk[w].cur].status = "pending"
            /\ wk[w].cur \in FreePending(w))
  /\ [][\A w \in Workers :
          (wk[w].pc = "claim_commit" /\ wk'[w].pc # "claim_commit") =>
            /\ wk'[w].cur = wk[w].cur
            /\ urls'[wk[w].cur].status = "in_progress"
            /\ urls'[wk[w].cur].last_attempt = Some(now)]_vars
  /\ [](\A i \in DOMAIN urls : urls[i].status = "in_progress" => urls[i].last_attempt # None)

\* One worker holds the lock on the oldest pending row while another, having
\* skipped that row, has selected a later one.
C15_Witness ==
  \E w, v \in Workers :
    /\ wk[w].pc = "claim_commit"
    /\ wk[v].pc = "claim_commit"
    /\ wk[w].cur < wk[v].cur
    /\ urls[wk[w].cur].status = "pending"

\* The distinct http/https targets, other than u itself, in the raw href list
\* of u's page.
TargetsOf(u) ==
  {t \in {PageHrefs(u)[k] : k \in DOMAIN PageHrefs(u)} :
     t # u /\ t.scheme \in {"http", "https"}}

JustCommitted(w) == wk[w].pc = "close_page" /\ wk[w].err = None

\* The Link rows under the success Snapshot of the worker's URL are one edge
\* from that URL to the row of each target, and nothing else.
EdgesExact(w) ==
  \E s \in SuccessSnaps(wk[w].cur) :
    /\ \A t \in TargetsOf(CurUrl(w)) :
         \E i \in Rows :
           urls[i].url = t /\ CopiesIn(LinkRow(wk[w].cur, i, s.id), links) = 1
    /\ \A l \in LinksOf(s.id) :
         /\ l.source_id = wk[w].cur
         /\ l.target_id # wk[w].cur
         /\ l.target_id \in Rows
         /\ urls[l.target_id].url \in TargetsOf(CurUrl(w))
    /\ Cardinality(LinksOf(s.id)) = Cardinality(TargetsOf(CurUrl(w)))

ByAuthority(i) ==
  urls[i].category = IF urls[i].url.netloc = start_url.netloc THEN "internal" ELSE "external"

C17_ExistingRowUntouched ==
  /\ [][\A w \in Workers :
          (wk[w].pc = "links" /\ wk'[w].pc = "links" /\ wk'[w].todo # wk[w].todo) =>
            /\ urls' = urls
            /\ \E h \in wk[w].todo :
                 /\ wk'[w].todo = wk[w].todo \ {h}
                 /\ \E i \in Rows :
                      /\ urls[i].url = h
                      /\ wk'[w].new_links =
                           wk[w].new_links (+) SetToBag({<<wk[w].cur, i>>})]_vars
  /\ [][\A w \in Workers :
          (wk[w].pc = "insert" /\ wk'[w].pc = "except") => urls' = urls]_vars

\* A worker has staged an edge to a row it did not insert and whose fetch has
\* failed, and the row is still error.
C17_Witness ==
  \E w \in Workers :
    /\ wk[w].pc = "links"
    /\ \E e \in BagToSet(wk[w].new_links) :
         e[2] \notin wk[w].inserted /\ urls[e[2]].status = "error"

AllUrls == {UrlSeed, UrlB, UrlOther, UrlMail}

\* C18: the classifier gives internal exactly when the URL's netloc equals
\* the seed's, and gives internal for the seed; the claim commit stores that
\* category whatever was stored before and takes the render branch for
\* internal and the status-only branch for external; so every worker in the
\* external branch holds a URL of another authority, every worker past
\* new_page holds one of the seed's, and every claimed row carries the
\* category of its authority.
C18_ClassificationByAuthority ==
  /\ [](/\ \A u \in AllUrls, v \in AllUrls :
             Classify(u, v.netloc) = "internal" <=> u.netloc = v.netloc
        /\ \A u \in AllUrls, v \in AllUrls :
             Classify(u, v.netloc) \in {"internal", "external"}
        /\ Classify(start_url, base_host) = "internal")
  /\ [][\A w \in Workers :
          (wk[w].pc = "claim_commit" /\ wk'[w].pc # "claim_commit") =>
            LET i == wk[w].cur
                same == urls[i].url.netloc = start_url.netloc
            IN /\ urls'[i].category = IF same THEN "internal" ELSE "external"
               /\ wk'[w].pc = IF same THEN "new_page" ELSE "external"]_vars
  /\ [](\A w \in Workers :
          /\ wk[w].pc = "external" => CurUrl(w).netloc # start_url.netloc
          /\ wk[w].pc \in {"new_page", "render", "links", "insert", "commit"} =>
               CurUrl(w).netloc = start_url.netloc)
  /\ [](\A i \in ClaimedRows : ByAuthority(i))
  /\ [](\A i \in ClaimedRows : urls[i].url = start_url => urls[i].category = "internal")

\* The seed is being rendered in a run that found it stored as external, with
\* the status-only Snapshot of an earlier run.
C18_Witness ==
  \E w \in Workers :
    /\ wk[w].pc = "render"
    /\ CurUrl(w) = start_url
    /\ urls[wk[w].cur].category = "internal"
    /\ \E s \in snapshots :
         s.url_id = wk[w].cur /\ s.run_id # run_id /\ s.status_code # None

ThisRunSnaps == {s \in snapshots : s.run_id = run_id}

\* C19: in every state of the store, a row claimed in the current run has
\* exactly one Snapshot of this run if it is done or error and none if it is
\* in_progress, a row not claimed in this run has none, Snapshot ids are
\* unique, and the run has as many Snapshots as claimed rows that are done or
\* error.
C19_OneSnapshotPerAttempt ==
  /\ \A i \in ClaimedRows :
       /\ urls[i].status \in Terminal => Cardinality(RunSnaps(i)) = 1
       /\ urls[i].status = "in_progress" => RunSnaps(i) = {}
       /\ urls[i].status \in Terminal \cup {"in_progress"}
  /\ \A i \in Rows \ ClaimedRows : RunSnaps(i) = {}
  /\ \A s, t \in snapshots : s.id = t.id => s = t
  /\ Cardinality(ThisRunSnaps) =
       Cardinality({i \in ClaimedRows : urls[i].status \in Terminal})

\* Two attempts of the run have ended, one with a success Snapshot and one
\* with an error Snapshot written after a failed commit, while a third row is
\* still in_progress.
C19_Witness ==
  /\ \E s \in ThisRunSnaps : s.error_message = None /\ s.content_hash # None
  /\ \E s \in ThisRunSnaps : s.error_message = Some("CommitError")
  /\ \E i \in ClaimedRows : urls[i].status = "in_progress"

Live == {w \in Workers : wk[w].pc # "stopped"}
PendingExists == \E i \in Rows : urls[i].status = "pending"

====
